---------------------------- MODULE Spec2Model ----------------------------
(***************************************************************************)
(* State-machine model of the SHADE program (programs/shade/src/lib.rs):   *)
(* protocol configuration, staking, fee distribution, fog pools and        *)
(* spending authorizations.                                                *)
(*                                                                         *)
(* Every instruction is one action.  The result of an instruction is given *)
(* by its <name>_error operator: "Ok", or the first error the account      *)
(* validation or the handler returns.  An instruction that returns an      *)
(* error commits nothing (the runtime discards the whole transaction), so  *)
(* it leaves every variable unchanged.                                     *)
(*                                                                         *)
(* Amounts.  TLC integers are 32 bit, so u64 amounts range over a bounded  *)
(* part of u64.  Pool-token amounts are in base units.  $SHADE amounts     *)
(* (staked_amount, total_staked, the tier thresholds) are counted in whole *)
(* $SHADE, i.e. in units of 10^6 base units: the thresholds 100_000_000,   *)
(* 1_000_000_000 and 10_000_000_000 of the source are 100, 1000 and 10000  *)
(* here, and every staked amount of the model is a whole number of $SHADE. *)
(* No counter of the model comes near 2^64, so the checked_add / checked_  *)
(* mul Overflow branches of the source are never taken.                    *)
(*                                                                         *)
(* Token accounts.  `balances` is the state of the token program; a        *)
(* token::transfer fails when the source holds less than the amount.  The  *)
(* vault constraints of the Accounts structs fix the pool vault, the fee   *)
(* vault and the staking vault of an instruction; the accounts a caller    *)
(* chooses freely (the recipient of a spend) range over a small set.       *)
(***************************************************************************)
EXTENDS Integers, FiniteSets, Sequences, TLC

VARIABLES
    protocol_config,   \* the ProtocolConfig singleton account
    stakers,           \* user -> Staker account (PDA seeded by the user)
    fog_pools,         \* pool seed -> FogPool account
    authorizations,    \* <<pool, spender, nonce>> -> Authorization account
    balances,          \* token account -> token balance (the token program)
    clock,             \* Clock::get()?.unix_timestamp
    last,              \* the last instruction that succeeded and its event
    budget             \* how many more instructions of each kind the run
                       \* may execute (bounds the exploration only)

vars == <<protocol_config, stakers, fog_pools, authorizations, balances,
          clock, last, budget>>

accounts == <<protocol_config, stakers, fog_pools, authorizations, balances>>

-----------------------------------------------------------------------------
(* Bounds of the exploration *)

MaxTime == 1
MaxSpends == 2
MaxStakeOps == 3
MaxDistributes == 2

-----------------------------------------------------------------------------
(* The finite universe the instructions draw their inputs from *)

Users == {"alice", "bob"}
Pools == {"p1", "p2"}
Admins == {"alice"}
PoolCreators == {<<"alice", "p1">>, <<"bob", "p2">>}

\* The Authorization PDAs of the model: seeds <<fog_pool, spender, nonce>>
AuthIds == {<<"p1", "bob", 0>>, <<"p1", "bob", 1>>}

DefaultPubkey == "default"

FeeChoices == {0, 100, 1000, 1001}
StakeAmounts == {0, 100, 1000, 10000}
DepositAmounts == {0, 2000000}
CapChoices == {0, 1000000, 10000001, 500000001}
ExpiryChoices == {1, 2}
\* the (spending_cap, expires_at, purpose length) a create_authorization passes
CreateRequests ==
    {[spending_cap |-> 1000000, expires_at |-> ex, purpose_len |-> 64] :
         ex \in ExpiryChoices}
    \cup {[spending_cap |-> cap, expires_at |-> 2, purpose_len |-> 64] :
              cap \in CapChoices}
    \cup {[spending_cap |-> 1000000, expires_at |-> 2, purpose_len |-> 65]}
SpendAmounts == {0, 199, 100000, 900000}
StakerArgs == {"None", "Some"}

FeeVault == <<"fee_vault", "protocol">>
StakingVault == <<"staking_vault", "protocol">>
VaultOf(p) == <<"vault", p>>
ShadeAccountOf(u) == <<"shade", u>>
TokenAccountOf(u) == <<"token", u>>

TokenAccounts ==
    {FeeVault, StakingVault}
        \cup {VaultOf(p) : p \in Pools}
        \cup {ShadeAccountOf(u) : u \in Users}
        \cup {TokenAccountOf(u) : u \in Users}

\* Spend.recipient_token_account carries no constraint: the spender may name
\* any token account of the mint, the protocol's fee vault included.
Recipients == {TokenAccountOf("bob"), FeeVault}

\* the (amount, recipient_token_account) a spend passes
SpendRequests ==
    {[amount |-> amt, recipient |-> TokenAccountOf("bob")] :
         amt \in SpendAmounts}
    \cup {[amount |-> 100000, recipient |-> FeeVault]}

-----------------------------------------------------------------------------
(* Account structures, zeroed as #[derive(Default)] leaves them *)

ProtocolConfigDefault ==
    [initialized |-> FALSE, authority |-> DefaultPubkey,
     fee_basis_points |-> 0, total_staked |-> 0,
     total_fees_collected |-> 0, total_fees_distributed |-> 0,
     bronze_threshold |-> 0, silver_threshold |-> 0, gold_threshold |-> 0,
     bronze_cap_multiplier |-> 0, silver_cap_multiplier |-> 0,
     gold_cap_multiplier |-> 0]

StakerDefault ==
    [initialized |-> FALSE, user |-> DefaultPubkey, staked_amount |-> 0,
     pending_rewards |-> 0, last_claim_timestamp |-> 0, tier |-> 0]

FogPoolDefault ==
    [initialized |-> FALSE, authority |-> DefaultPubkey,
     total_deposited |-> 0, total_spent |-> 0, total_fees_generated |-> 0,
     active_authorizations |-> 0]

AuthorizationDefault ==
    [initialized |-> FALSE, fog_pool |-> DefaultPubkey,
     authorized_spender |-> DefaultPubkey, issuer |-> DefaultPubkey,
     spending_cap |-> 0, amount_spent |-> 0, created_at |-> 0,
     expires_at |-> 0, purpose_len |-> 0, is_active |-> FALSE]

NoEvent == [name |-> "None"]

-----------------------------------------------------------------------------
(* Helper functions *)

\* floor(a * b / c) as the source computes it: the product is formed in u128,
\* where it cannot overflow for u64 operands, and then divided.  The split
\* form is the same number and keeps the intermediate values small.
MulDiv(a, b, c) == (a \div c) * b + ((a % c) * b) \div c

\* The largest amount the model represents.
AmountLimit == 2 * 1073741823 + 1

\* A faulty tier function, with strict comparisons; C15 must tell it from
\* calculate_tier.
calculate_tier_strict(staked_amount, config) ==
    IF staked_amount > config.gold_threshold THEN 3
    ELSE IF staked_amount > config.silver_threshold THEN 2
    ELSE IF staked_amount > config.bronze_threshold THEN 1
    ELSE 0

calculate_tier(staked_amount, config) ==
    IF staked_amount >= config.gold_threshold THEN 3
    ELSE IF staked_amount >= config.silver_threshold THEN 2
    ELSE IF staked_amount >= config.bronze_threshold THEN 1
    ELSE 0

\* base_cap * multiplier / 100.  For the silver and gold multipliers the
\* result (5 * 10^9, 10^10) is beyond the amounts the model represents; it is
\* then reported as AmountLimit, which every cap of the model is below, so
\* each comparison spending_cap <= max_cap has the outcome it has in the
\* source.
get_max_cap_for_tier(tier, config) ==
    LET base_cap == 1000000000
        multiplier == CASE tier = 3 -> config.gold_cap_multiplier
                        [] tier = 2 -> config.silver_cap_multiplier
                        [] tier = 1 -> config.bronze_cap_multiplier
                        [] OTHER -> 50
    IN  IF multiplier > AmountLimit \div (base_cap \div 100)
        THEN AmountLimit
        ELSE MulDiv(base_cap, multiplier, 100)

\* token::transfer succeeds iff the source account holds the amount
CanTransfer(bal, from, amount) == bal[from] >= amount

Transfer(bal, from, to, amount) ==
    [[bal EXCEPT ![from] = @ - amount] EXCEPT ![to] = @ + amount]

Max(a, b) == IF a >= b THEN a ELSE b

saturating_sub(a, b) == Max(a - b, 0)

\* An instruction that returned an error: nothing is committed.
Fail(op, e) == UNCHANGED vars

\* A successful instruction of the given kind: it uses one unit of the run's
\* budget for that kind and emits the event ev.
Done(kind, op, ev) ==
    /\ budget[kind] > 0
    /\ budget' = [budget EXCEPT ![kind] = @ - 1]
    /\ last' = [op |-> op, event |-> ev]

-----------------------------------------------------------------------------
(* PROTOCOL CONFIGURATION *)

initialize_protocol_error(fee_basis_points) ==
    IF protocol_config.initialized THEN "AccountInUse"
    ELSE IF ~(fee_basis_points <= 1000) THEN "FeeTooHigh"
    ELSE "Ok"

initialize_protocol(authority, fee_basis_points) ==
    LET e == initialize_protocol_error(fee_basis_points) IN
    IF e # "Ok" THEN Fail("initialize_protocol", e)
    ELSE
        /\ protocol_config' =
               [initialized |-> TRUE, authority |-> authority,
                fee_basis_points |-> fee_basis_points,
                total_staked |-> 0, total_fees_collected |-> 0,
                total_fees_distributed |-> 0,
                bronze_threshold |-> 100,      \* 100 $SHADE
                silver_threshold |-> 1000,     \* 1,000 $SHADE
                gold_threshold |-> 10000,      \* 10,000 $SHADE
                bronze_cap_multiplier |-> 100,
                silver_cap_multiplier |-> 500,
                gold_cap_multiplier |-> 1000]
        /\ Done("setup", "initialize_protocol",
                [name |-> "ProtocolInitialized", authority |-> authority,
                 fee_basis_points |-> fee_basis_points])
        /\ UNCHANGED <<stakers, fog_pools, authorizations, balances, clock>>

\* A faulty update_fee, without the bound on the new rate; C21 must tell it
\* from update_fee_error.
update_fee_error_unbounded(caller, new_fee_basis_points) ==
    IF ~protocol_config.initialized THEN "AccountNotInitialized"
    ELSE IF protocol_config.authority # caller THEN "Unauthorized"
    ELSE "Ok"

update_fee_error(caller, new_fee_basis_points) ==
    IF ~protocol_config.initialized THEN "AccountNotInitialized"
    ELSE IF protocol_config.authority # caller THEN "Unauthorized"
    ELSE IF ~(new_fee_basis_points <= 1000) THEN "FeeTooHigh"
    ELSE "Ok"

update_fee(caller, new_fee_basis_points) ==
    LET e == update_fee_error(caller, new_fee_basis_points) IN
    IF e # "Ok" THEN Fail("update_fee", e)
    ELSE
        /\ protocol_config' =
               [protocol_config EXCEPT !.fee_basis_points = new_fee_basis_points]
        /\ Done("fee", "update_fee",
                [name |-> "FeeUpdated",
                 old_fee |-> protocol_config.fee_basis_points,
                 new_fee |-> new_fee_basis_points])
        /\ UNCHANGED <<stakers, fog_pools, authorizations, balances, clock>>

-----------------------------------------------------------------------------
(* STAKING *)

stake_error(user, amount) ==
    IF ~protocol_config.initialized THEN "AccountNotInitialized"
    ELSE IF ~(amount > 0) THEN "InvalidAmount"
    ELSE IF ~CanTransfer(balances, ShadeAccountOf(user), amount)
         THEN "InsufficientFunds"
    ELSE "Ok"

\* A faulty stake, which does not add the amount to total_staked; C26 must
\* tell it from stake.
stake_uncounted(user, amount) ==
    LET e == stake_error(user, amount) IN
    IF e # "Ok" THEN Fail("stake", e)
    ELSE
        LET staker0 == IF stakers[user].user = DefaultPubkey
                       THEN [StakerDefault EXCEPT
                                 !.initialized = TRUE,
                                 !.user = user,
                                 !.staked_amount = 0,
                                 !.pending_rewards = 0,
                                 !.last_claim_timestamp = clock]
                       ELSE stakers[user]
            new_total == staker0.staked_amount + amount
            staker1 == [staker0 EXCEPT
                            !.staked_amount = new_total,
                            !.tier = calculate_tier(new_total, protocol_config)]
        IN
        /\ balances' = Transfer(balances, ShadeAccountOf(user), StakingVault, amount)
        /\ stakers' = [stakers EXCEPT ![user] = staker1]
        /\ Done("stake", "stake",
                [name |-> "Staked", user |-> user, amount |-> amount,
                 new_total |-> staker1.staked_amount, tier |-> staker1.tier])
        /\ UNCHANGED <<protocol_config, fog_pools, authorizations, clock>>

stake(user, amount) ==
    LET e == stake_error(user, amount) IN
    IF e # "Ok" THEN Fail("stake", e)
    ELSE
        LET \* init_if_needed, then the first-stake initialisation
            staker0 == IF stakers[user].user = DefaultPubkey
                       THEN [StakerDefault EXCEPT
                                 !.initialized = TRUE,
                                 !.user = user,
                                 !.staked_amount = 0,
                                 !.pending_rewards = 0,
                                 !.last_claim_timestamp = clock]
                       ELSE stakers[user]
            new_total == staker0.staked_amount + amount
            staker1 == [staker0 EXCEPT
                            !.staked_amount = new_total,
                            !.tier = calculate_tier(new_total, protocol_config)]
        IN
        /\ balances' = Transfer(balances, ShadeAccountOf(user), StakingVault, amount)
        /\ stakers' = [stakers EXCEPT ![user] = staker1]
        /\ protocol_config' =
               [protocol_config EXCEPT !.total_staked = @ + amount]
        /\ Done("stake", "stake",
                [name |-> "Staked", user |-> user, amount |-> amount,
                 new_total |-> staker1.staked_amount, tier |-> staker1.tier])
        /\ UNCHANGED <<fog_pools, authorizations, clock>>

unstake_error(user, amount) ==
    IF ~protocol_config.initialized THEN "AccountNotInitialized"
    ELSE IF ~stakers[user].initialized THEN "AccountNotInitialized"
    ELSE IF stakers[user].user # user THEN "Unauthorized"
    ELSE IF ~(amount > 0) THEN "InvalidAmount"
    ELSE IF ~(stakers[user].staked_amount >= amount) THEN "InsufficientStake"
    ELSE IF ~CanTransfer(balances, StakingVault, amount) THEN "InsufficientFunds"
    ELSE "Ok"

\* A faulty unstake, which does not recompute the tier; C14 must tell it
\* from unstake.
unstake_keeps_tier(user, amount) ==
    LET e == unstake_error(user, amount) IN
    IF e # "Ok" THEN Fail("unstake", e)
    ELSE
        LET remaining == stakers[user].staked_amount - amount IN
        /\ balances' = Transfer(balances, StakingVault, ShadeAccountOf(user), amount)
        /\ stakers' = [stakers EXCEPT ![user].staked_amount = remaining]
        /\ protocol_config' =
               [protocol_config EXCEPT
                    !.total_staked = saturating_sub(@, amount)]
        /\ Done("stake", "unstake",
                [name |-> "Unstaked", user |-> user, amount |-> amount,
                 remaining |-> remaining, tier |-> stakers[user].tier])
        /\ UNCHANGED <<fog_pools, authorizations, clock>>

\* A faulty unstake, which leaves total_staked as it was; C17 must tell it
\* from unstake_total_staked.
unstake_total_staked_kept(amount) == protocol_config.total_staked

\* The staker record and the total_staked a successful unstake writes.
unstake_staker(user, amount) ==
    LET remaining == stakers[user].staked_amount - amount IN
    [stakers[user] EXCEPT
         !.staked_amount = remaining,
         !.tier = calculate_tier(remaining, protocol_config)]

unstake_total_staked(amount) == saturating_sub(protocol_config.total_staked, amount)

unstake(user, amount) ==
    LET e == unstake_error(user, amount) IN
    IF e # "Ok" THEN Fail("unstake", e)
    ELSE
        LET staker1 == unstake_staker(user, amount) IN
        /\ balances' = Transfer(balances, StakingVault, ShadeAccountOf(user), amount)
        /\ stakers' = [stakers EXCEPT ![user] = staker1]
        /\ protocol_config' =
               [protocol_config EXCEPT
                    !.total_staked = unstake_total_staked(amount)]
        /\ Done("stake", "unstake",
                [name |-> "Unstaked", user |-> user, amount |-> amount,
                 remaining |-> staker1.staked_amount, tier |-> staker1.tier])
        /\ UNCHANGED <<fog_pools, authorizations, clock>>

claim_rewards_error(user) ==
    IF ~protocol_config.initialized THEN "AccountNotInitialized"
    ELSE IF ~stakers[user].initialized THEN "AccountNotInitialized"
    ELSE IF stakers[user].user # user THEN "Unauthorized"
    ELSE IF ~(stakers[user].pending_rewards > 0) THEN "NoRewardsToClaim"
    ELSE IF ~CanTransfer(balances, FeeVault, stakers[user].pending_rewards)
         THEN "InsufficientFunds"
    ELSE "Ok"

\* A faulty claim_rewards, which leaves pending_rewards as it was; C13 must
\* tell it from claim_rewards.
claim_rewards_keeps_pending(user) ==
    LET e == claim_rewards_error(user) IN
    IF e # "Ok" THEN Fail("claim_rewards", e)
    ELSE
        LET pending == stakers[user].pending_rewards IN
        /\ balances' = Transfer(balances, FeeVault, TokenAccountOf(user), pending)
        /\ stakers' = [stakers EXCEPT ![user].last_claim_timestamp = clock]
        /\ protocol_config' =
               [protocol_config EXCEPT !.total_fees_distributed = @ + pending]
        /\ Done("claim", "claim_rewards",
                [name |-> "RewardsClaimed", user |-> user, amount |-> pending])
        /\ UNCHANGED <<fog_pools, authorizations, clock>>

\* A faulty claim_rewards, in which a refused transfer does not undo the
\* call: pending_rewards is zeroed and total_fees_distributed advanced
\* although nothing was paid.  C20 must tell it from claim_rewards.
claim_rewards_partial(user) ==
    LET e == claim_rewards_error(user)
        pending == stakers[user].pending_rewards
    IN
    IF e = "InsufficientFunds"
    THEN /\ stakers' = [stakers EXCEPT ![user].pending_rewards = 0]
         /\ protocol_config' =
                [protocol_config EXCEPT !.total_fees_distributed = @ + pending]
         /\ UNCHANGED <<balances, fog_pools, authorizations, clock, last, budget>>
    ELSE IF e # "Ok" THEN Fail("claim_rewards", e)
    ELSE
        /\ balances' = Transfer(balances, FeeVault, TokenAccountOf(user), pending)
        /\ stakers' = [stakers EXCEPT
                           ![user].pending_rewards = 0,
                           ![user].last_claim_timestamp = clock]
        /\ protocol_config' =
               [protocol_config EXCEPT !.total_fees_distributed = @ + pending]
        /\ Done("claim", "claim_rewards",
                [name |-> "RewardsClaimed", user |-> user, amount |-> pending])
        /\ UNCHANGED <<fog_pools, authorizations, clock>>

\* A faulty claim_rewards, which does not advance total_fees_distributed;
\* C28 must tell it from claim_rewards.
claim_rewards_unrecorded(user) ==
    LET e == claim_rewards_error(user) IN
    IF e # "Ok" THEN Fail("claim_rewards", e)
    ELSE
        LET pending == stakers[user].pending_rewards IN
        /\ balances' = Transfer(balances, FeeVault, TokenAccountOf(user), pending)
        /\ stakers' = [stakers EXCEPT
                           ![user].pending_rewards = 0,
                           ![user].last_claim_timestamp = clock]
        /\ Done("claim", "claim_rewards",
                [name |-> "RewardsClaimed", user |-> user, amount |-> pending])
        /\ UNCHANGED <<protocol_config, fog_pools, authorizations, clock>>

claim_rewards(user) ==
    LET e == claim_rewards_error(user) IN
    IF e # "Ok" THEN Fail("claim_rewards", e)
    ELSE
        LET pending == stakers[user].pending_rewards IN
        /\ balances' = Transfer(balances, FeeVault, TokenAccountOf(user), pending)
        /\ stakers' = [stakers EXCEPT
                           ![user].pending_rewards = 0,
                           ![user].last_claim_timestamp = clock]
        /\ protocol_config' =
               [protocol_config EXCEPT !.total_fees_distributed = @ + pending]
        /\ Done("claim", "claim_rewards",
                [name |-> "RewardsClaimed", user |-> user, amount |-> pending])
        /\ UNCHANGED <<fog_pools, authorizations, clock>>

\* A faulty distribute_fees, without the NoStakers check; C11 must tell it
\* from distribute_fees_error.
distribute_fees_error_without_no_stakers(staker) ==
    IF ~protocol_config.initialized THEN "AccountNotInitialized"
    ELSE IF ~stakers[staker].initialized THEN "AccountNotInitialized"
    ELSE IF ~(stakers[staker].staked_amount > 0) THEN "NotStaking"
    ELSE "Ok"

distribute_fees_error(staker) ==
    IF ~protocol_config.initialized THEN "AccountNotInitialized"
    ELSE IF ~stakers[staker].initialized THEN "AccountNotInitialized"
    ELSE IF ~(protocol_config.total_staked > 0) THEN "NoStakers"
    ELSE IF ~(stakers[staker].staked_amount > 0) THEN "NotStaking"
    ELSE "Ok"

\* A faulty distribute_fees, which counts the share as distributed; C10
\* must tell it from distribute_fees.
distribute_fees_marks_distributed(staker) ==
    LET e == distribute_fees_error(staker) IN
    IF e # "Ok" THEN Fail("distribute_fees", e)
    ELSE
        LET undistributed ==
                saturating_sub(protocol_config.total_fees_collected,
                               protocol_config.total_fees_distributed)
            share == MulDiv(undistributed, stakers[staker].staked_amount,
                            protocol_config.total_staked)
        IN
        IF undistributed = 0 \/ share = 0
        THEN /\ Done("distribute", "distribute_fees", NoEvent)
             /\ UNCHANGED <<accounts, clock>>
        ELSE /\ stakers' = [stakers EXCEPT ![staker].pending_rewards = @ + share]
             /\ protocol_config' =
                    [protocol_config EXCEPT !.total_fees_distributed = @ + share]
             /\ Done("distribute", "distribute_fees",
                     [name |-> "FeesDistributed",
                      staker |-> stakers[staker].user, amount |-> share])
             /\ UNCHANGED <<fog_pools, authorizations, balances, clock>>

\* A faulty share, taken of all fees collected rather than of the
\* undistributed ones; C12 must tell it from distribute_share.
distribute_share_of_collected(staker) ==
    MulDiv(protocol_config.total_fees_collected,
           stakers[staker].staked_amount, protocol_config.total_staked)

\* total_fees_collected.saturating_sub(total_fees_distributed)
distribute_undistributed ==
    saturating_sub(protocol_config.total_fees_collected,
                   protocol_config.total_fees_distributed)

\* undistributed * staked_amount / total_staked in u128, as u64
distribute_share(staker) ==
    MulDiv(distribute_undistributed, stakers[staker].staked_amount,
           protocol_config.total_staked)

distribute_fees(staker) ==
    LET e == distribute_fees_error(staker) IN
    IF e # "Ok" THEN Fail("distribute_fees", e)
    ELSE
        LET undistributed == distribute_undistributed
            share == distribute_share(staker)
        IN
        IF undistributed = 0 \/ share = 0
        THEN \* return Ok(()) before any write or event
             /\ Done("distribute", "distribute_fees", NoEvent)
             /\ UNCHANGED <<accounts, clock>>
        ELSE /\ stakers' = [stakers EXCEPT ![staker].pending_rewards = @ + share]
             /\ Done("distribute", "distribute_fees",
                     [name |-> "FeesDistributed",
                      staker |-> stakers[staker].user, amount |-> share])
             /\ UNCHANGED <<protocol_config, fog_pools, authorizations,
                            balances, clock>>

-----------------------------------------------------------------------------
(* FOG POOLS *)

initialize_fog_pool_error(pool) ==
    IF fog_pools[pool].initialized THEN "AccountInUse" ELSE "Ok"

initialize_fog_pool(authority, pool) ==
    LET e == initialize_fog_pool_error(pool) IN
    IF e # "Ok" THEN Fail("initialize_fog_pool", e)
    ELSE
        /\ fog_pools' = [fog_pools EXCEPT ![pool] =
               [initialized |-> TRUE, authority |-> authority,
                total_deposited |-> 0, total_spent |-> 0,
                total_fees_generated |-> 0, active_authorizations |-> 0]]
        /\ Done("setup", "initialize_fog_pool",
                [name |-> "FogPoolCreated", pool |-> pool,
                 authority |-> authority])
        /\ UNCHANGED <<protocol_config, stakers, authorizations, balances, clock>>

deposit_to_fog_error(depositor, pool, amount) ==
    IF ~fog_pools[pool].initialized THEN "AccountNotInitialized"
    ELSE IF ~(amount > 0) THEN "InvalidAmount"
    ELSE IF ~CanTransfer(balances, TokenAccountOf(depositor), amount)
         THEN "InsufficientFunds"
    ELSE "Ok"

deposit_to_fog(depositor, pool, amount) ==
    LET e == deposit_to_fog_error(depositor, pool, amount) IN
    IF e # "Ok" THEN Fail("deposit_to_fog", e)
    ELSE
        /\ balances' = Transfer(balances, TokenAccountOf(depositor),
                                VaultOf(pool), amount)
        /\ fog_pools' = [fog_pools EXCEPT ![pool].total_deposited = @ + amount]
        /\ Done("setup", "deposit_to_fog",
                [name |-> "DepositMade", pool |-> pool,
                 depositor |-> depositor, amount |-> amount])
        /\ UNCHANGED <<protocol_config, stakers, authorizations, clock>>

-----------------------------------------------------------------------------
(* AUTHORIZATIONS *)

\* A faulty account validation, `init_if_needed` in place of `init`: an
\* existing Authorization is accepted.  C3 must tell it from
\* create_authorization_error.
create_authorization_error_init_if_needed(issuer, pool, spender, nonce, spending_cap, expires_at, purpose_len, staker_arg) ==
    IF ~fog_pools[pool].initialized THEN "AccountNotInitialized"
    ELSE IF ~protocol_config.initialized THEN "AccountNotInitialized"
    ELSE IF staker_arg = "Some" /\ ~stakers[spender].initialized
         THEN "AccountNotInitialized"
    ELSE IF issuer # fog_pools[pool].authority THEN "Unauthorized"
    ELSE IF ~(spending_cap > 0) THEN "InvalidAmount"
    ELSE IF ~(purpose_len <= 64) THEN "PurposeTooLong"
    ELSE IF ~(expires_at > clock) THEN "InvalidExpiry"
    ELSE IF /\ staker_arg = "Some"
            /\ ~(spending_cap <=
                   get_max_cap_for_tier(stakers[spender].tier, protocol_config))
         THEN "ExceedsTierLimit"
    ELSE "Ok"

\* A faulty create_authorization, which accepts expires_at equal to the
\* current time; C18 must tell it from create_authorization_error.
create_authorization_error_expiry_inclusive(issuer, pool, spender, nonce, spending_cap, expires_at, purpose_len, staker_arg) ==
    IF authorizations[<<pool, spender, nonce>>].initialized THEN "AccountInUse"
    ELSE IF ~fog_pools[pool].initialized THEN "AccountNotInitialized"
    ELSE IF ~protocol_config.initialized THEN "AccountNotInitialized"
    ELSE IF staker_arg = "Some" /\ ~stakers[spender].initialized
         THEN "AccountNotInitialized"
    ELSE IF issuer # fog_pools[pool].authority THEN "Unauthorized"
    ELSE IF ~(spending_cap > 0) THEN "InvalidAmount"
    ELSE IF ~(purpose_len <= 64) THEN "PurposeTooLong"
    ELSE IF ~(expires_at >= clock) THEN "InvalidExpiry"
    ELSE IF /\ staker_arg = "Some"
            /\ ~(spending_cap <=
                   get_max_cap_for_tier(stakers[spender].tier, protocol_config))
         THEN "ExceedsTierLimit"
    ELSE "Ok"

\* staker_arg is the optional staker account of CreateAuthorization: "Some"
\* when the issuer passes the spender's Staker account, "None" when the
\* issuer leaves it out.
create_authorization_error(issuer, pool, spender, nonce, spending_cap, expires_at, purpose_len, staker_arg) ==
    IF authorizations[<<pool, spender, nonce>>].initialized THEN "AccountInUse"
    ELSE IF ~fog_pools[pool].initialized THEN "AccountNotInitialized"
    ELSE IF ~protocol_config.initialized THEN "AccountNotInitialized"
    ELSE IF staker_arg = "Some" /\ ~stakers[spender].initialized
         THEN "AccountNotInitialized"
    ELSE IF issuer # fog_pools[pool].authority THEN "Unauthorized"
    ELSE IF ~(spending_cap > 0) THEN "InvalidAmount"
    ELSE IF ~(purpose_len <= 64) THEN "PurposeTooLong"
    ELSE IF ~(expires_at > clock) THEN "InvalidExpiry"
    ELSE IF /\ staker_arg = "Some"
            /\ ~(spending_cap <=
                   get_max_cap_for_tier(stakers[spender].tier, protocol_config))
         THEN "ExceedsTierLimit"
    ELSE "Ok"

create_authorization(issuer, pool, spender, nonce, spending_cap, expires_at, purpose_len, staker_arg) ==
    LET e == create_authorization_error(issuer, pool, spender, nonce,
                 spending_cap, expires_at, purpose_len, staker_arg)
        a == <<pool, spender, nonce>>
    IN
    IF e # "Ok" THEN Fail("create_authorization", e)
    ELSE
        /\ authorizations' = [authorizations EXCEPT ![a] =
               [initialized |-> TRUE, fog_pool |-> pool,
                authorized_spender |-> spender, issuer |-> issuer,
                spending_cap |-> spending_cap, amount_spent |-> 0,
                created_at |-> clock, expires_at |-> expires_at,
                purpose_len |-> purpose_len, is_active |-> TRUE]]
        /\ fog_pools' = [fog_pools EXCEPT ![pool].active_authorizations = @ + 1]
        /\ Done("create", "create_authorization",
                [name |-> "AuthorizationCreated", authorization |-> a,
                 fog_pool |-> pool, spender |-> spender, issuer |-> issuer,
                 spending_cap |-> spending_cap, expires_at |-> expires_at])
        /\ UNCHANGED <<protocol_config, stakers, balances, clock>>

\* A faulty fee, rounded up; C6 must tell it from fee_of.
fee_of_rounded_up(amount, fee_basis_points) ==
    (amount * fee_basis_points + 9999) \div 10000

\* the fee of a spend: amount * fee_basis_points / 10000 in u128, as u64
fee_of(amount, fee_basis_points) == MulDiv(amount, fee_basis_points, 10000)

spend_fee(amount) == fee_of(amount, protocol_config.fee_basis_points)

\* A faulty net amount, the fee not taken off; C5 must tell it from
\* spend_net_amount.
spend_net_amount_gross(amount) == amount

\* amount.checked_sub(fee)
spend_net_amount(amount) == amount - spend_fee(amount)

\* A faulty remaining, the amount already spent not taken off; C1 must tell
\* it from spend_remaining.
spend_remaining_of_cap(authorization) == authorization.spending_cap

\* spending_cap.checked_sub(amount_spent)
spend_remaining(authorization) ==
    authorization.spending_cap - authorization.amount_spent

\* A faulty expiry test, still valid at expires_at; C4 must tell it from
\* not_expired.
not_expired_inclusive(authorization, now) == now <= authorization.expires_at

\* clock.unix_timestamp < authorization.expires_at
not_expired(authorization, now) == now < authorization.expires_at

\* A faulty update, counting the net amount; C2 must tell it from
\* spend_amount_spent.
spend_amount_spent_net(authorization, amount) ==
    authorization.amount_spent + spend_net_amount(amount)

\* amount_spent.checked_add(amount)
spend_amount_spent(authorization, amount) ==
    authorization.amount_spent + amount

\* A faulty spend, without the check of the amount against the remaining
\* cap; C19 must tell it from spend_error.
spend_error_uncapped(caller, a, pool, amount) ==
    LET authorization == authorizations[a]
        remaining == spend_remaining(authorization)
        fee == spend_fee(amount)
        net_amount == spend_net_amount(amount)
    IN
    IF ~authorization.initialized THEN "AccountNotInitialized"
    ELSE IF ~fog_pools[pool].initialized THEN "AccountNotInitialized"
    ELSE IF ~protocol_config.initialized THEN "AccountNotInitialized"
    ELSE IF authorization.authorized_spender # caller THEN "Unauthorized"
    ELSE IF authorization.fog_pool # pool THEN "ConstraintRaw"
    ELSE IF ~authorization.is_active THEN "AuthorizationInactive"
    ELSE IF ~not_expired(authorization, clock) THEN "AuthorizationExpired"
    ELSE IF remaining < 0 THEN "Overflow"
    ELSE IF net_amount < 0 THEN "Overflow"
    ELSE IF ~CanTransfer(balances, VaultOf(pool), net_amount)
         THEN "InsufficientFunds"
    ELSE IF fee > 0 /\ ~CanTransfer(balances, VaultOf(pool), net_amount + fee)
         THEN "InsufficientFunds"
    ELSE "Ok"

\* A faulty Spend validation, without the constraint on the spender; C22
\* must tell it from spend_error.
spend_error_any_caller(caller, a, pool, amount) ==
    LET authorization == authorizations[a]
        remaining == spend_remaining(authorization)
        fee == spend_fee(amount)
        net_amount == spend_net_amount(amount)
    IN
    IF ~authorization.initialized THEN "AccountNotInitialized"
    ELSE IF ~fog_pools[pool].initialized THEN "AccountNotInitialized"
    ELSE IF ~protocol_config.initialized THEN "AccountNotInitialized"
    ELSE IF authorization.fog_pool # pool THEN "ConstraintRaw"
    ELSE IF ~authorization.is_active THEN "AuthorizationInactive"
    ELSE IF ~not_expired(authorization, clock) THEN "AuthorizationExpired"
    ELSE IF remaining < 0 THEN "Overflow"
    ELSE IF ~(amount <= remaining) THEN "ExceedsSpendingCap"
    ELSE IF net_amount < 0 THEN "Overflow"
    ELSE IF ~CanTransfer(balances, VaultOf(pool), net_amount)
         THEN "InsufficientFunds"
    ELSE IF fee > 0 /\ ~CanTransfer(balances, VaultOf(pool), net_amount + fee)
         THEN "InsufficientFunds"
    ELSE "Ok"

\* A faulty spend, which checks the cap against the spender's current tier
\* again; C24 must tell it from spend_error.
spend_error_rechecks_tier(caller, a, pool, amount) ==
    LET authorization == authorizations[a]
        remaining == spend_remaining(authorization)
        fee == spend_fee(amount)
        net_amount == spend_net_amount(amount)
    IN
    IF ~authorization.initialized THEN "AccountNotInitialized"
    ELSE IF ~fog_pools[pool].initialized THEN "AccountNotInitialized"
    ELSE IF ~protocol_config.initialized THEN "AccountNotInitialized"
    ELSE IF authorization.authorized_spender # caller THEN "Unauthorized"
    ELSE IF authorization.fog_pool # pool THEN "ConstraintRaw"
    ELSE IF ~authorization.is_active THEN "AuthorizationInactive"
    ELSE IF ~not_expired(authorization, clock) THEN "AuthorizationExpired"
    ELSE IF /\ stakers[caller].initialized
            /\ ~(authorization.spending_cap <=
                   get_max_cap_for_tier(stakers[caller].tier, protocol_config))
         THEN "ExceedsTierLimit"
    ELSE IF remaining < 0 THEN "Overflow"
    ELSE IF ~(amount <= remaining) THEN "ExceedsSpendingCap"
    ELSE IF net_amount < 0 THEN "Overflow"
    ELSE IF ~CanTransfer(balances, VaultOf(pool), net_amount)
         THEN "InsufficientFunds"
    ELSE IF fee > 0 /\ ~CanTransfer(balances, VaultOf(pool), net_amount + fee)
         THEN "InsufficientFunds"
    ELSE "Ok"

spend_error(caller, a, pool, amount) ==
    LET authorization == authorizations[a]
        remaining == spend_remaining(authorization)
        fee == spend_fee(amount)
        net_amount == spend_net_amount(amount)
    IN
    IF ~authorization.initialized THEN "AccountNotInitialized"
    ELSE IF ~fog_pools[pool].initialized THEN "AccountNotInitialized"
    ELSE IF ~protocol_config.initialized THEN "AccountNotInitialized"
    ELSE IF authorization.authorized_spender # caller THEN "Unauthorized"
    ELSE IF authorization.fog_pool # pool THEN "ConstraintRaw"
    ELSE IF ~authorization.is_active THEN "AuthorizationInactive"
    ELSE IF ~not_expired(authorization, clock) THEN "AuthorizationExpired"
    ELSE IF remaining < 0 THEN "Overflow"
    ELSE IF ~(amount <= remaining) THEN "ExceedsSpendingCap"
    ELSE IF net_amount < 0 THEN "Overflow"
    ELSE IF ~CanTransfer(balances, VaultOf(pool), net_amount)
         THEN "InsufficientFunds"
    ELSE IF fee > 0 /\ ~CanTransfer(balances, VaultOf(pool), net_amount + fee)
         THEN "InsufficientFunds"
    ELSE "Ok"

\* A faulty spend, which does not add the fee to the pool's
\* total_fees_generated; C27 must tell it from spend.
spend_fee_uncounted(caller, a, pool, amount, recipient) ==
    LET e == spend_error(caller, a, pool, amount) IN
    IF e # "Ok" THEN Fail("spend", e)
    ELSE
        LET fee == spend_fee(amount)
            net_amount == spend_net_amount(amount)
            paid == Transfer(balances, VaultOf(pool), recipient, net_amount)
            spent == spend_amount_spent(authorizations[a], amount)
        IN
        /\ balances' = IF fee > 0
                       THEN Transfer(paid, VaultOf(pool), FeeVault, fee)
                       ELSE paid
        /\ authorizations' = [authorizations EXCEPT ![a].amount_spent = spent]
        /\ fog_pools' = [fog_pools EXCEPT ![pool].total_spent = @ + amount]
        /\ protocol_config' =
               [protocol_config EXCEPT !.total_fees_collected = @ + fee]
        /\ Done("spend", "spend",
                [name |-> "SpendExecuted", authorization |-> a,
                 fog_pool |-> pool, spender |-> caller,
                 recipient |-> recipient, amount |-> amount, fee |-> fee,
                 net_amount |-> net_amount,
                 remaining |-> authorizations[a].spending_cap - spent])
        /\ UNCHANGED <<stakers, clock>>

spend(caller, a, pool, amount, recipient) ==
    LET e == spend_error(caller, a, pool, amount) IN
    IF e # "Ok" THEN Fail("spend", e)
    ELSE
        LET fee == spend_fee(amount)
            net_amount == spend_net_amount(amount)
            paid == Transfer(balances, VaultOf(pool), recipient, net_amount)
            spent == spend_amount_spent(authorizations[a], amount)
        IN
        /\ balances' = IF fee > 0
                       THEN Transfer(paid, VaultOf(pool), FeeVault, fee)
                       ELSE paid
        /\ authorizations' = [authorizations EXCEPT ![a].amount_spent = spent]
        /\ fog_pools' = [fog_pools EXCEPT
                             ![pool].total_spent = @ + amount,
                             ![pool].total_fees_generated = @ + fee]
        /\ protocol_config' =
               [protocol_config EXCEPT !.total_fees_collected = @ + fee]
        /\ Done("spend", "spend",
                [name |-> "SpendExecuted", authorization |-> a,
                 fog_pool |-> pool, spender |-> caller,
                 recipient |-> recipient, amount |-> amount, fee |-> fee,
                 net_amount |-> net_amount,
                 remaining |-> authorizations[a].spending_cap - spent])
        /\ UNCHANGED <<stakers, clock>>

\* A faulty revoke_authorization, without the is_active check; C16 must tell
\* it from revoke_authorization_error.
revoke_authorization_error_unchecked(caller, a, pool) ==
    IF ~authorizations[a].initialized THEN "AccountNotInitialized"
    ELSE IF ~fog_pools[pool].initialized THEN "AccountNotInitialized"
    ELSE IF authorizations[a].issuer # caller THEN "Unauthorized"
    ELSE "Ok"

revoke_authorization_error(caller, a, pool) ==
    IF ~authorizations[a].initialized THEN "AccountNotInitialized"
    ELSE IF ~fog_pools[pool].initialized THEN "AccountNotInitialized"
    ELSE IF authorizations[a].issuer # caller THEN "Unauthorized"
    ELSE IF ~authorizations[a].is_active THEN "AuthorizationInactive"
    ELSE "Ok"

\* A faulty revoke_authorization, which also clears amount_spent; C23 must
\* tell it from revoke_authorization.
revoke_authorization_clears_spent(caller, a, pool) ==
    LET e == revoke_authorization_error(caller, a, pool) IN
    IF e # "Ok" THEN Fail("revoke_authorization", e)
    ELSE
        /\ authorizations' = [authorizations EXCEPT
               ![a].is_active = FALSE, ![a].amount_spent = 0]
        /\ fog_pools' = [fog_pools EXCEPT
               ![pool].active_authorizations = saturating_sub(@, 1)]
        /\ Done("revoke", "revoke_authorization",
                [name |-> "AuthorizationRevoked", authorization |-> a,
                 fog_pool |-> pool, revoked_by |-> caller])
        /\ UNCHANGED <<protocol_config, stakers, balances, clock>>

\* `pool` is the FogPool account the caller passes; RevokeAuthorization puts
\* no constraint on it.
revoke_authorization(caller, a, pool) ==
    LET e == revoke_authorization_error(caller, a, pool) IN
    IF e # "Ok" THEN Fail("revoke_authorization", e)
    ELSE
        /\ authorizations' = [authorizations EXCEPT ![a].is_active = FALSE]
        /\ fog_pools' = [fog_pools EXCEPT
               ![pool].active_authorizations = saturating_sub(@, 1)]
        /\ Done("revoke", "revoke_authorization",
                [name |-> "AuthorizationRevoked", authorization |-> a,
                 fog_pool |-> pool, revoked_by |-> caller])
        /\ UNCHANGED <<protocol_config, stakers, balances, clock>>

-----------------------------------------------------------------------------
(* The clock of the host: monotonic *)

Tick ==
    /\ budget.tick > 0
    /\ clock' = clock + 1
    /\ budget' = [budget EXCEPT !.tick = @ - 1]
    /\ UNCHANGED <<accounts, last>>

-----------------------------------------------------------------------------

\* What the users hold before any instruction has run.
InitialBalances ==
    [t \in TokenAccounts |->
        IF t \in {ShadeAccountOf(u) : u \in Users} THEN 10000
        ELSE IF t = TokenAccountOf("alice") THEN 2000000
        ELSE 0]

\* The program as deployed: no account exists.
Fresh ==
    /\ protocol_config = ProtocolConfigDefault
    /\ fog_pools = [p \in Pools |-> FogPoolDefault]
    /\ balances = InitialBalances

\* The program after its one-time setup, the state
\*   initialize_protocol(alice, 100); initialize_fog_pool(alice, p1);
\*   initialize_fog_pool(bob, p2); deposit_to_fog(alice, p1, 2000000)
\* lead to from Fresh (SetUpReached below is that state).
SetUp ==
    /\ protocol_config =
           [initialized |-> TRUE, authority |-> "alice",
            fee_basis_points |-> 100,
            total_staked |-> 0, total_fees_collected |-> 0,
            total_fees_distributed |-> 0,
            bronze_threshold |-> 100, silver_threshold |-> 1000,
            gold_threshold |-> 10000,
            bronze_cap_multiplier |-> 100, silver_cap_multiplier |-> 500,
            gold_cap_multiplier |-> 1000]
    /\ fog_pools =
           [p \in Pools |->
               [initialized |-> TRUE,
                authority |-> IF p = "p1" THEN "alice" ELSE "bob",
                total_deposited |-> IF p = "p1" THEN 2000000 ELSE 0,
                total_spent |-> 0, total_fees_generated |-> 0,
                active_authorizations |-> 0]]
    /\ balances = Transfer(InitialBalances, TokenAccountOf("alice"),
                           VaultOf("p1"), 2000000)

\* A budget: how many instructions of each kind a run may execute.
BudgetOf(nSetup, nFee, nStake, nCreate, nSpend, nRevoke, nDistribute, nClaim, nTick) ==
    [setup |-> nSetup, fee |-> nFee, stake |-> nStake, create |-> nCreate,
     spend |-> nSpend, revoke |-> nRevoke, distribute |-> nDistribute,
     claim |-> nClaim, tick |-> nTick]

\* The runs explored from SetUp:
\*   - fee distribution: two stake operations, an authorization, a spend
\*     that pays a fee, distributions and claims;
\*   - spending: two authorizations and the spends on them;
\*   - revocation and expiry: two authorizations, revoked, with the clock
\*     advancing, and a spend;
\*   - a fee change around the spends on an authorization;
\*   - staking tiers: stake and unstake around a creation and a spend.
SetUpBudgets ==
    {BudgetOf(0, 0, 2, 1, 1, 0, MaxDistributes, 2, 0),
     BudgetOf(0, 0, 0, 2, MaxSpends, 0, 0, 0, 0),
     BudgetOf(0, 0, 0, 2, 1, 2, 0, 0, MaxTime),
     BudgetOf(0, 1, 0, 1, MaxSpends, 0, 0, 0, 0),
     BudgetOf(0, 0, MaxStakeOps, 1, 1, 0, 0, 0, 0)}

\* The runs explored from Fresh: the setup, a fee change, an authorization
\* and a spend.
FreshBudget == BudgetOf(4, 1, 0, 1, 1, 0, 0, 0, 0)

Init ==
    /\ \/ Fresh /\ budget = FreshBudget
       \/ SetUp /\ budget \in SetUpBudgets
    /\ stakers = [u \in Users |-> StakerDefault]
    /\ authorizations = [a \in AuthIds |-> AuthorizationDefault]
    /\ clock = 0
    /\ last = [op |-> "none", event |-> NoEvent]

Next ==
    \/ \E u \in Admins, f \in FeeChoices : initialize_protocol(u, f)
    \/ \E u \in Users, f \in FeeChoices : update_fee(u, f)
    \/ \E u \in Users, amt \in StakeAmounts : stake(u, amt)
    \/ \E u \in Users, amt \in StakeAmounts : unstake(u, amt)
    \/ \E u \in Users : claim_rewards(u)
    \/ \E u \in Users : distribute_fees(u)
    \/ \E c \in PoolCreators : initialize_fog_pool(c[1], c[2])
    \/ \E u \in Users, p \in Pools, amt \in DepositAmounts : deposit_to_fog(u, p, amt)
    \/ \E u \in Users, a \in AuthIds, r \in CreateRequests, st \in StakerArgs :
            create_authorization(u, a[1], a[2], a[3], r.spending_cap,
                                 r.expires_at, r.purpose_len, st)
    \/ \E u \in Users, a \in AuthIds, p \in Pools, r \in SpendRequests :
            spend(u, a, p, r.amount, r.recipient)
    \/ \E u \in Users, a \in AuthIds, p \in Pools : revoke_authorization(u, a, p)
    \/ Tick

Spec == Init /\ [][Next]_vars

\* The accounts SetUp starts from are the ones the setup instructions build.
SetUpReached ==
    /\ protocol_config.initialized /\ protocol_config.fee_basis_points = 100
    /\ protocol_config.authority = "alice"
    /\ \A p \in Pools : fog_pools[p].initialized
    /\ fog_pools["p1"].authority = "alice" /\ fog_pools["p2"].authority = "bob"
    /\ fog_pools["p1"].total_deposited = 2000000
    /\ balances = Transfer(InitialBalances, TokenAccountOf("alice"),
                           VaultOf("p1"), 2000000)
    /\ last.op = "deposit_to_fog"

-----------------------------------------------------------------------------
(* PROPERTIES *)

\* The step is a successful instruction of the given kind.
Step(kind) == budget'[kind] = budget[kind] - 1

Existing == {a \in AuthIds : authorizations[a].initialized}

\* C1: every authorization has amount_spent <= spending_cap, in every
\* reachable state.
C1_SpentWithinCap ==
    \A a \in Existing :
        /\ authorizations[a].amount_spent >= 0
        /\ authorizations[a].amount_spent <= authorizations[a].spending_cap

\* An authorization spent up to its cap by two spends.
C1_CapReached ==
    /\ last.op = "spend"
    /\ \E a \in Existing :
          /\ authorizations[a].amount_spent = authorizations[a].spending_cap
          /\ last.event.authorization = a
          /\ last.event.amount < authorizations[a].amount_spent
          /\ last.event.amount > 0

\* C2: amount_spent of an authorization never decreases; a step changes it
\* only if the step is a successful spend on that authorization, and then by
\* exactly the amount spent.
C2_SpentMonotone ==
    [][\A a \in AuthIds :
         LET before == authorizations[a].amount_spent
             after == authorizations'[a].amount_spent
             spent_on_a == /\ Step("spend")
                           /\ last'.op = "spend"
                           /\ last'.event.authorization = a
         IN  /\ after >= before
             /\ after # before => spent_on_a
             /\ spent_on_a => after = before + last'.event.amount
      ]_vars

\* A second spend on an authorization, at a non-zero fee, has just added its
\* amount.
C2_SpentTwice ==
    /\ last.op = "spend"
    /\ last.event.fee > 0
    /\ \E a \in Existing :
          /\ last.event.authorization = a
          /\ authorizations[a].amount_spent > last.event.amount

\* C3: once an authorization's is_active is false it is never true again.
C3_RevokedForGood ==
    [][\A a \in Existing :
         ~authorizations[a].is_active => ~authorizations'[a].is_active]_vars

\* An authorization has just been revoked, and creating it again, which
\* would set is_active, is refused because the account exists.
C3_Revoked ==
    /\ last.op = "revoke_authorization"
    /\ budget.create > 0
    /\ \E a \in Existing :
          /\ last.event.authorization = a
          /\ ~authorizations[a].is_active
          /\ \A r \in CreateRequests, st \in StakerArgs :
                create_authorization_error(authorizations[a].issuer, a[1],
                    a[2], a[3], r.spending_cap, r.expires_at, r.purpose_len,
                    st) = "AccountInUse"

\* The authorization is revoked or has reached its expiry.
Closed(a) ==
    \/ ~authorizations[a].is_active
    \/ clock >= authorizations[a].expires_at

\* C4: a spend on an authorization whose is_active is false fails with
\* AuthorizationInactive; on an active one at or after expires_at, with
\* AuthorizationExpired; on an active, unexpired one for more than
\* spending_cap - amount_spent, with ExceedsSpendingCap (the checks apply in
\* this order to a call by the authorized spender on the authorization's
\* pool).  Once an authorization is revoked or expired it stays so and no
\* spend on it succeeds, whoever calls and whatever the amount.
C4_SpendRefused ==
    /\ [](\A a \in Existing, amt \in SpendAmounts :
            LET authorization == authorizations[a]
                e == spend_error(authorization.authorized_spender, a,
                                 authorization.fog_pool, amt)
            IN  /\ ~authorization.is_active => e = "AuthorizationInactive"
                /\ (authorization.is_active
                      /\ clock >= authorization.expires_at)
                   => e = "AuthorizationExpired"
                /\ (authorization.is_active
                      /\ clock < authorization.expires_at
                      /\ amt > authorization.spending_cap
                                 - authorization.amount_spent)
                   => e = "ExceedsSpendingCap"
                /\ Closed(a) =>
                      \A u \in Users, p \in Pools :
                          spend_error(u, a, p, amt) # "Ok")
    /\ [][\A a \in Existing :
            Closed(a) =>
               /\ Closed(a)'
               /\ authorizations'[a].amount_spent = authorizations[a].amount_spent
               /\ ~(Step("spend") /\ last'.event.authorization = a)
         ]_vars

\* One authorization is revoked after a spend on it, the other is active and
\* has reached its expiry; each refuses its spender with its own error.
C4_RevokedAndExpired ==
    \E a, b \in Existing :
        /\ ~authorizations[a].is_active
        /\ authorizations[a].amount_spent > 0
        /\ clock < authorizations[a].expires_at
        /\ spend_error(authorizations[a].authorized_spender, a,
                       authorizations[a].fog_pool, 199)
             = "AuthorizationInactive"
        /\ authorizations[b].is_active
        /\ clock = authorizations[b].expires_at
        /\ spend_error(authorizations[b].authorized_spender, b,
                       authorizations[b].fog_pool, 199)
             = "AuthorizationExpired"

\* C5: a successful spend of `amount` at any fee rate of 0..1000 basis points
\* splits it into fee + net_amount = amount, debits the pool vault by
\* amount, credits the recipient with net_amount and the fee vault with fee,
\* and touches no other token account.  (A recipient that is the fee vault
\* itself receives both credits.)
C5_SpendConserves ==
    /\ \A bps \in 0..1000, amt \in SpendAmounts :
          /\ fee_of(amt, bps) >= 0
          /\ fee_of(amt, bps) <= amt
    /\ [][Step("spend") =>
         LET ev == last'.event
             vault == VaultOf(ev.fog_pool)
             debit(t) == IF t = vault THEN ev.amount ELSE 0
             credit(t) == (IF t = ev.recipient THEN ev.net_amount ELSE 0)
                            + (IF t = FeeVault THEN ev.fee ELSE 0)
         IN  /\ protocol_config.fee_basis_points \in 0..1000
             /\ ev.amount \in SpendAmounts
             /\ ev.fee = spend_fee(ev.amount)
             /\ ev.fee + ev.net_amount = ev.amount
             /\ ev.net_amount >= 0
             /\ \A t \in TokenAccounts :
                   balances'[t] = balances[t] - debit(t) + credit(t)
       ]_vars

\* A spend of 199 at 1000 basis points: the fee is 19, the recipient gets
\* 180.
C5_SplitSpend ==
    /\ last.op = "spend"
    /\ protocol_config.fee_basis_points = 1000
    /\ last.event.amount = 199
    /\ last.event.fee = 19
    /\ last.event.net_amount = 180
    /\ last.event.recipient = TokenAccountOf("bob")
    /\ balances[FeeVault] = 19
    /\ balances[TokenAccountOf("bob")] = 180

\* C6: the fee of a successful spend is floor(amount * fee_basis_points /
\* 10000) at the rate in force when it runs, and the remaining it reports is
\* spending_cap - amount_spent after the update.  At 100 basis points, a
\* first spend of 100,000 on a cap of 1,000,000 pays a fee of 1,000, a net
\* 99,000, and leaves 900,000.
C6_FeeAndRemaining ==
    [][Step("spend") =>
         LET ev == last'.event
             bps == protocol_config.fee_basis_points
             before == authorizations[ev.authorization]
             after == authorizations'[ev.authorization]
         IN  /\ ev.fee * 10000 <= ev.amount * bps
             /\ ev.amount * bps < (ev.fee + 1) * 10000
             /\ ev.remaining = after.spending_cap - after.amount_spent
             /\ ev.remaining = before.spending_cap - before.amount_spent
                                   - ev.amount
             /\ (/\ bps = 100
                 /\ before.spending_cap = 1000000
                 /\ before.amount_spent = 0
                 /\ ev.amount = 100000)
                => /\ ev.fee = 1000
                   /\ ev.net_amount = 99000
                   /\ ev.remaining = 900000
      ]_vars

\* The spend of the example has just run.
C6_Example ==
    /\ last.op = "spend"
    /\ protocol_config.fee_basis_points = 100
    /\ last.event.amount = 100000
    /\ last.event.fee = 1000
    /\ last.event.net_amount = 99000
    /\ last.event.remaining = 900000
    /\ authorizations[last.event.authorization].spending_cap = 1000000

\* C7: an authorization whose spender has no staking record is bounded by
\* the tier-0 cap, as for a spender whose record has tier 0, and in
\* particular is never created with a cap of 10,000,001.
C7_NonStakerBounded ==
    \A a \in Existing :
        ~stakers[authorizations[a].authorized_spender].initialized =>
            /\ authorizations[a].spending_cap
                 <= get_max_cap_for_tier(0, protocol_config)
            /\ authorizations[a].spending_cap # 10000001

\* C8: an authorization created while its spender has a staking record has
\* spending_cap <= get_max_cap_for_tier(the record's tier at that time).
C8_StakerCapBounded ==
    [][\A a \in AuthIds :
         (/\ Step("create")
          /\ last'.event.authorization = a
          /\ stakers[a[2]].initialized)
         => authorizations'[a].spending_cap
              <= get_max_cap_for_tier(stakers[a[2]].tier, protocol_config)
      ]_vars

\* C9: total_fees_distributed <= total_fees_collected in every reachable
\* state.
C9_DistributedWithinCollected ==
    /\ protocol_config.total_fees_distributed >= 0
    /\ protocol_config.total_fees_distributed
         <= protocol_config.total_fees_collected

PendingTotal == stakers["alice"].pending_rewards + stakers["bob"].pending_rewards

\* C10: a successful distribute_fees changes nothing but the pending_rewards
\* of one staker, which it does not decrease; total_fees_distributed changes
\* only in a successful claim_rewards.
C10_DistributeFrame ==
    [][/\ Step("distribute") =>
            /\ UNCHANGED <<protocol_config, fog_pools, authorizations,
                           balances, clock>>
            /\ \E u \in Users :
                  /\ \A v \in Users \ {u} : stakers'[v] = stakers[v]
                  /\ stakers'[u].pending_rewards >= stakers[u].pending_rewards
                  /\ stakers'[u] = [stakers[u] EXCEPT !.pending_rewards =
                                        stakers'[u].pending_rewards]
       /\ protocol_config'.total_fees_distributed
             # protocol_config.total_fees_distributed
          => Step("claim") /\ last'.op = "claim_rewards"
      ]_vars

\* After a distribution and before any claim, the stakers' pending rewards
\* add up to more than the fees that are left to distribute.
C10_OverAllocated ==
    /\ last.op = "distribute_fees"
    /\ protocol_config.total_fees_distributed = 0
    /\ PendingTotal > protocol_config.total_fees_collected
                        - protocol_config.total_fees_distributed

\* The accounts distribute_fees(u) names exist.
DistributeCallable(u) == protocol_config.initialized /\ stakers[u].initialized

\* C11 as stated: distribute_fees called when total_staked = 0 returns
\* success (and changes nothing, emits nothing).
C11_NoStakersIsNoOp ==
    \A u \in Users :
        (DistributeCallable(u) /\ protocol_config.total_staked = 0)
        => distribute_fees_error(u) = "Ok"

\* C11 as the code has it: distribute_fees called when total_staked = 0
\* fails with NoStakers, so no state changes and no event is emitted; no
\* distribute_fees succeeds from such a state.
C11_NoStakersIsError ==
    /\ [](\A u \in Users :
            (DistributeCallable(u) /\ protocol_config.total_staked = 0)
            => distribute_fees_error(u) = "NoStakers")
    /\ [][protocol_config.total_staked = 0 => ~Step("distribute")]_vars

\* A staker record exists, everything has been unstaked, and distributions
\* are still within the run's budget.
C11_NothingStaked ==
    /\ last.op = "unstake"
    /\ protocol_config.total_staked = 0
    /\ protocol_config.total_fees_collected > 0
    /\ budget.distribute > 0
    /\ \E u \in Users : DistributeCallable(u)

\* C12: a staker with staked_amount > 0, while total_staked > 0, can be
\* distributed to, and every successful distribute_fees is one to such a
\* staker u: with undistributed = total_fees_collected -
\* total_fees_distributed floored at zero and share = floor(undistributed *
\* staked_amount / total_staked), it adds exactly share to u's
\* pending_rewards and emits FeesDistributed, or, when undistributed or share
\* is zero, changes no account and emits nothing.
C12_ProportionalShare ==
    /\ [](\A u \in Users :
            (/\ DistributeCallable(u)
             /\ stakers[u].staked_amount > 0
             /\ protocol_config.total_staked > 0)
            => distribute_fees_error(u) = "Ok")
    /\ [][Step("distribute") =>
            \E u \in Users :
               LET undistributed ==
                       Max(protocol_config.total_fees_collected
                             - protocol_config.total_fees_distributed, 0)
                   share == (undistributed * stakers[u].staked_amount)
                                \div protocol_config.total_staked
               IN  /\ DistributeCallable(u)
                   /\ stakers[u].staked_amount > 0
                   /\ protocol_config.total_staked > 0
                   /\ IF undistributed = 0 \/ share = 0
                      THEN /\ UNCHANGED accounts
                           /\ last'.event = NoEvent
                      ELSE /\ stakers' = [stakers EXCEPT
                                  ![u].pending_rewards = @ + share]
                           /\ UNCHANGED <<protocol_config, fog_pools,
                                          authorizations, balances>>
                           /\ last'.event = [name |-> "FeesDistributed",
                                             staker |-> u, amount |-> share]
         ]_vars

\* A distribution whose share was rounded down, to a staker who has been
\* distributed to before.
C12_RoundedShare ==
    /\ last.op = "distribute_fees"
    /\ last.event.name = "FeesDistributed"
    /\ LET u == last.event.staker IN
          /\ last.event.amount * protocol_config.total_staked
               < distribute_undistributed * stakers[u].staked_amount
          /\ stakers[u].pending_rewards > last.event.amount

\* A distribution that succeeded without effect although fees are
\* undistributed: the share was floored to zero.
ZeroShareDistributed ==
    /\ last.op = "distribute_fees"
    /\ last.event = NoEvent
    /\ distribute_undistributed > 0

\* The accounts claim_rewards(u) names exist.
ClaimCallable(u) == protocol_config.initialized /\ stakers[u].initialized

\* C13: claim_rewards by a staker whose pending_rewards is 0 fails with
\* NoRewardsToClaim; with pending_rewards > 0 the only possible failure is
\* the transfer out of the fee vault (the vault holding less than the
\* pending amount).  A successful claim_rewards moves exactly the pending
\* amount from the fee vault to the user's token account, sets the staker's
\* pending_rewards to 0, adds exactly that amount to total_fees_distributed
\* and leaves the stakes, the other stakers and the other balances alone.
C13_ClaimPaysPending ==
    /\ [](\A u \in Users :
            ClaimCallable(u) =>
               LET e == claim_rewards_error(u) IN
               /\ stakers[u].pending_rewards = 0 => e = "NoRewardsToClaim"
               /\ stakers[u].pending_rewards > 0 =>
                     /\ e \in {"Ok", "InsufficientFunds"}
                     /\ e = "Ok" <=>
                          balances[FeeVault] >= stakers[u].pending_rewards)
    /\ [][Step("claim") =>
            LET u == last'.event.user
                pending == stakers[u].pending_rewards
                debit(t) == IF t = FeeVault THEN pending ELSE 0
                credit(t) == IF t = TokenAccountOf(u) THEN pending ELSE 0
            IN  /\ last'.event = [name |-> "RewardsClaimed", user |-> u,
                                  amount |-> pending]
                /\ pending > 0
                /\ \A t \in TokenAccounts :
                      balances'[t] = balances[t] - debit(t) + credit(t)
                /\ stakers'[u].pending_rewards = 0
                /\ stakers'[u].staked_amount = stakers[u].staked_amount
                /\ stakers'[u].tier = stakers[u].tier
                /\ \A v \in Users \ {u} : stakers'[v] = stakers[v]
                /\ protocol_config' =
                      [protocol_config EXCEPT
                           !.total_fees_distributed = @ + pending]
         ]_vars

\* A staker has just claimed; claiming again is refused with
\* NoRewardsToClaim.
C13_Claimed ==
    /\ last.op = "claim_rewards"
    /\ last.event.amount > 0
    /\ stakers[last.event.user].pending_rewards = 0
    /\ balances[TokenAccountOf(last.event.user)] >= last.event.amount
    /\ claim_rewards_error(last.event.user) = "NoRewardsToClaim"
    /\ budget.claim > 0

StakerRecords == {u \in Users : stakers[u].initialized}

\* C14: in every reachable state the tier stored in a staker record is the
\* tier function of its staked_amount and the protocol's thresholds, and no
\* step changes a tier without changing that staker's staked_amount.
C14_TierFollowsStake ==
    /\ [](\A u \in StakerRecords :
            stakers[u].tier
              = calculate_tier(stakers[u].staked_amount, protocol_config))
    /\ [][\A u \in Users :
            stakers'[u].tier # stakers[u].tier
            => stakers'[u].staked_amount # stakers[u].staked_amount]_vars

\* An unstake has just taken a gold staker down to silver.
C14_Downgraded ==
    /\ last.op = "unstake"
    /\ last.event.tier = 2
    /\ last.event.remaining + last.event.amount >= protocol_config.gold_threshold
    /\ stakers[last.event.user].tier = 2

\* Staked amounts around the thresholds, and threshold settings: the ones
\* initialize_protocol writes, the ones of the current state, and two more.
TierStakes == {0, 1, 2, 3, 4, 5, 99, 100, 101, 999, 1000, 1001, 9999, 10000,
               10001}

TierConfigs ==
    {[bronze_threshold |-> 100, silver_threshold |-> 1000,
      gold_threshold |-> 10000],
     [bronze_threshold |-> 1, silver_threshold |-> 3, gold_threshold |-> 5],
     [bronze_threshold |-> 5, silver_threshold |-> 5, gold_threshold |-> 5],
     [bronze_threshold |-> protocol_config.bronze_threshold,
      silver_threshold |-> protocol_config.silver_threshold,
      gold_threshold |-> protocol_config.gold_threshold]}

\* The highest of the tiers 1..3 whose threshold the amount meets, 0 if none.
HighestTierMet(staked_amount, config) ==
    LET threshold(i) == CASE i = 1 -> config.bronze_threshold
                          [] i = 2 -> config.silver_threshold
                          [] i = 3 -> config.gold_threshold
        met == {0} \cup {i \in 1..3 : staked_amount >= threshold(i)}
    IN  CHOOSE t \in met : \A i \in met : i <= t

\* C15: the tier function is total with values in 0..3 and returns the
\* highest tier whose threshold is met; an amount equal to a threshold gets
\* that threshold's tier.  The tier every stake and unstake reports is that
\* of the new staked amount.
C15_TierFunction ==
    /\ [](\A s \in TierStakes, config \in TierConfigs :
            /\ calculate_tier(s, config) \in 0..3
            /\ calculate_tier(s, config) = HighestTierMet(s, config))
    /\ [](\A config \in TierConfigs :
            /\ calculate_tier(config.gold_threshold, config) = 3
            /\ config.silver_threshold < config.gold_threshold
               => calculate_tier(config.silver_threshold, config) = 2
            /\ config.bronze_threshold < config.silver_threshold
               => calculate_tier(config.bronze_threshold, config) = 1)
    /\ [][Step("stake") =>
            LET u == last'.event.user IN
            last'.event.tier
              = HighestTierMet(stakers'[u].staked_amount, protocol_config)]_vars

\* A stake has just brought a staker to exactly the silver threshold, and
\* the staker is silver.
C15_ExactlySilver ==
    /\ last.op = "stake"
    /\ stakers[last.event.user].staked_amount = protocol_config.silver_threshold
    /\ last.event.tier = 2
    /\ stakers[last.event.user].tier = 2

Revoked == {a \in Existing : ~authorizations[a].is_active}

\* C16: revoke_authorization by the issuer on an authorization that is
\* already revoked fails with AuthorizationInactive, whichever pool account
\* is passed; no revoke_authorization on it succeeds by anyone, so is_active
\* stays false and no pool's active_authorizations is decremented for it a
\* second time.
C16_SecondRevokeRefused ==
    /\ [](\A a \in Revoked, p \in Pools :
            fog_pools[p].initialized
            => /\ revoke_authorization_error(authorizations[a].issuer, a, p)
                    = "AuthorizationInactive"
               /\ \A u \in Users : revoke_authorization_error(u, a, p) # "Ok")
    /\ [][\A a \in Revoked :
            /\ ~(Step("revoke") /\ last'.event.authorization = a)
            /\ ~authorizations'[a].is_active
            /\ Step("revoke") =>
                  \E b \in Existing \ Revoked, p \in Pools :
                     /\ last'.event = [name |-> "AuthorizationRevoked",
                                       authorization |-> b, fog_pool |-> p,
                                       revoked_by |-> authorizations[b].issuer]
                     /\ fog_pools' = [fog_pools EXCEPT
                           ![p].active_authorizations = Max(@ - 1, 0)]
         ]_vars

\* An authorization has just been revoked while the run may still revoke,
\* and its issuer's second revoke is refused.
C16_RevokedOnce ==
    /\ last.op = "revoke_authorization"
    /\ budget.revoke > 0
    /\ last.event.authorization \in Revoked
    /\ revoke_authorization_error(last.event.revoked_by,
                                  last.event.authorization,
                                  last.event.fog_pool)
         = "AuthorizationInactive"

\* C17: when stake(X) by a user succeeds, unstake(X) by the same user in the
\* state it leaves succeeds and writes back the staked_amount, the tier and
\* the total_staked from before the stake, on a record that exists; started
\* from no stake, the tier written is 0. In the runs, an unstake(X) that
\* directly follows the user's stake(X) leaves exactly that.
C17_StakeUnstakeRestores ==
    /\ [][\A u \in Users, x \in StakeAmounts :
            (Step("stake") /\ last'.op = "stake"
               /\ last'.event.user = u /\ last'.event.amount = x)
            => /\ (unstake_error(u, x))' = "Ok"
               /\ (unstake_staker(u, x))'.initialized
               /\ (unstake_staker(u, x))'.user = u
               /\ (unstake_staker(u, x))'.staked_amount
                     = stakers[u].staked_amount
               /\ (unstake_staker(u, x))'.tier = stakers[u].tier
               /\ (unstake_total_staked(x))' = protocol_config.total_staked
               /\ stakers[u].staked_amount = 0
                     => (unstake_staker(u, x))'.tier = 0
         ]_vars
    /\ [][\A u \in Users, x \in StakeAmounts :
            (/\ last.op = "stake"
             /\ last.event.user = u /\ last.event.amount = x
             /\ Step("stake") /\ last'.op = "unstake"
             /\ last'.event.user = u /\ last'.event.amount = x)
            => /\ stakers'[u] = unstake_staker(u, x)
               /\ stakers'[u].initialized
               /\ stakers'[u].staked_amount = last.event.new_total - x
               /\ protocol_config'.total_staked
                     = protocol_config.total_staked - x
               /\ stakers'[u].staked_amount = 0 => stakers'[u].tier = 0
         ]_vars

\* A user without stake staked 1000, which made the tier positive, and
\* unstaked 1000 directly after: the record is there, at nothing staked and
\* tier 0.
C17_BackToZero ==
    /\ last.op = "unstake"
    /\ last.event.amount = 1000
    /\ budget.stake = MaxStakeOps - 2
    /\ protocol_config.total_staked = 0
    /\ stakers[last.event.user].initialized
    /\ stakers[last.event.user].staked_amount = 0
    /\ stakers[last.event.user].tier = 0
    /\ calculate_tier(1000, protocol_config) > 0

\* The expiry times tried against the clock: earlier, equal and later.
ExpiryTimes == 0 .. (MaxTime + 1)

\* C18: create_authorization returns Ok only with expires_at > now; a call
\* with expires_at <= now that passes the account validation and the amount
\* and purpose checks (the same call with a later expiry reaches the tier
\* check) fails with InvalidExpiry; a successful create_authorization writes
\* created_at = now < expires_at; and every authorization that exists has
\* created_at < expires_at.
C18_ExpiryInFuture ==
    /\ [](\A u \in Users, a \in AuthIds, r \in CreateRequests,
            st \in StakerArgs, ex \in ExpiryTimes :
            LET e == create_authorization_error(u, a[1], a[2], a[3],
                         r.spending_cap, ex, r.purpose_len, st)
                later == create_authorization_error(u, a[1], a[2], a[3],
                             r.spending_cap, clock + 1, r.purpose_len, st)
            IN /\ e = "Ok" => ex > clock
               /\ (ex <= clock /\ later \in {"Ok", "ExceedsTierLimit"})
                     => e = "InvalidExpiry")
    /\ [](\A a \in Existing :
            authorizations[a].created_at < authorizations[a].expires_at)
    /\ [][Step("create") =>
            LET a == last'.event.authorization IN
            /\ last'.op = "create_authorization"
            /\ ~authorizations[a].initialized
            /\ authorizations'[a].initialized
            /\ authorizations'[a].created_at = clock
            /\ authorizations'[a].expires_at = last'.event.expires_at
            /\ authorizations'[a].expires_at > clock
         ]_vars

\* At time 1 an authorization expiring at 2 has just been created, and a
\* further one expiring at 1, the current time, is refused with
\* InvalidExpiry.
C18_ExpiryNowRefused ==
    /\ clock = 1
    /\ last.op = "create_authorization"
    /\ budget.create > 0
    /\ authorizations[<<"p1", "bob", 0>>].initialized
    /\ authorizations[<<"p1", "bob", 0>>].created_at = 1
    /\ authorizations[<<"p1", "bob", 0>>].expires_at = 2
    /\ ~authorizations[<<"p1", "bob", 1>>].initialized
    /\ create_authorization_error("alice", "p1", "bob", 1, 1000000, 1, 64, "None")
         = "InvalidExpiry"

\* The authorizations whose cap is used up and which are neither revoked
\* nor expired.
Exhausted ==
    {a \in Existing :
        /\ authorizations[a].amount_spent = authorizations[a].spending_cap
        /\ authorizations[a].is_active
        /\ clock < authorizations[a].expires_at}

\* C19, as stated: on an authorization with amount_spent = spending_cap
\* (active and unexpired, so that the cap check is the one that applies)
\* every spend by its spender fails with ExceedsSpendingCap.
C19_EverySpendRefused ==
    \A a \in Exhausted, amt \in SpendAmounts :
        spend_error(authorizations[a].authorized_spender, a,
                    authorizations[a].fog_pool, amt) = "ExceedsSpendingCap"

\* C19, amended: an authorization with amount_spent = spending_cap keeps
\* is_active = TRUE unless a revoke_authorization clears it, and keeps
\* amount_spent = spending_cap; while it is active and unexpired a spend by
\* its spender fails with ExceedsSpendingCap when the amount is not zero,
\* and is accepted when the amount is zero.
C19_NonZeroSpendRefused ==
    /\ [](\A a \in Exhausted, amt \in SpendAmounts :
            spend_error(authorizations[a].authorized_spender, a,
                        authorizations[a].fog_pool, amt)
              = IF amt = 0 THEN "Ok" ELSE "ExceedsSpendingCap")
    /\ [][\A a \in Existing :
            authorizations[a].amount_spent = authorizations[a].spending_cap
            => /\ authorizations'[a].amount_spent
                     = authorizations'[a].spending_cap
               /\ authorizations[a].is_active
                     => (authorizations'[a].is_active \/ Step("revoke"))
               /\ (Step("spend") /\ last'.event.authorization = a)
                     => last'.event.amount = 0
         ]_vars

\* An authorization has just been spent up to its cap: it is still active,
\* and a further spend of 199 by its spender is refused with
\* ExceedsSpendingCap.
C19_CapUsedUp ==
    /\ last.op = "spend"
    /\ last.event.authorization \in Exhausted
    /\ last.event.amount > 0
    /\ spend_error(authorizations[last.event.authorization].authorized_spender,
                   last.event.authorization,
                   authorizations[last.event.authorization].fog_pool, 199)
         = "ExceedsSpendingCap"

\* The step is one of a call that returns Ok.
SuccessfulCall ==
    \/ /\ Step("setup")
       /\ \/ \E u \in Admins, f \in FeeChoices :
                initialize_protocol_error(f) = "Ok" /\ initialize_protocol(u, f)
          \/ \E c \in PoolCreators :
                initialize_fog_pool_error(c[2]) = "Ok"
                /\ initialize_fog_pool(c[1], c[2])
          \/ \E u \in Users, p \in Pools, amt \in DepositAmounts :
                deposit_to_fog_error(u, p, amt) = "Ok" /\ deposit_to_fog(u, p, amt)
    \/ /\ Step("fee")
       /\ \E u \in Users, f \in FeeChoices :
             update_fee_error(u, f) = "Ok" /\ update_fee(u, f)
    \/ /\ Step("stake")
       /\ \E u \in Users, amt \in StakeAmounts :
             \/ stake_error(u, amt) = "Ok" /\ stake(u, amt)
             \/ unstake_error(u, amt) = "Ok" /\ unstake(u, amt)
    \/ /\ Step("claim")
       /\ \E u \in Users : claim_rewards_error(u) = "Ok" /\ claim_rewards(u)
    \/ /\ Step("distribute")
       /\ \E u \in Users : distribute_fees_error(u) = "Ok" /\ distribute_fees(u)
    \/ /\ Step("create")
       /\ \E u \in Users, a \in AuthIds, r \in CreateRequests, st \in StakerArgs :
             /\ create_authorization_error(u, a[1], a[2], a[3], r.spending_cap,
                    r.expires_at, r.purpose_len, st) = "Ok"
             /\ create_authorization(u, a[1], a[2], a[3], r.spending_cap,
                    r.expires_at, r.purpose_len, st)
    \/ /\ Step("spend")
       /\ \E u \in Users, a \in AuthIds, p \in Pools, r \in SpendRequests :
             /\ spend_error(u, a, p, r.amount) = "Ok"
             /\ spend(u, a, p, r.amount, r.recipient)
    \/ /\ Step("revoke")
       /\ \E u \in Users, a \in AuthIds, p \in Pools :
             /\ revoke_authorization_error(u, a, p) = "Ok"
             /\ revoke_authorization(u, a, p)

ClaimBeyondFeeVault ==
    /\ budget.claim > 0
    /\ \E u \in StakerRecords :
          /\ stakers[u].pending_rewards > balances[FeeVault]
          /\ claim_rewards_error(u) = "InsufficientFunds"

\* C21: fee_basis_points is at most 1000 in every reachable state.  For a
\* rate above 1000, initialize_protocol (on a configuration not yet created)
\* and update_fee (called by the stored authority) fail with FeeTooHigh;
\* update_fee by anyone else fails with Unauthorized whatever the rate; and
\* fee_basis_points changes only in a successful initialize_protocol or in
\* an update_fee, to the rate passed.
C21_FeeBounded ==
    /\ [](/\ protocol_config.fee_basis_points >= 0
          /\ protocol_config.fee_basis_points <= 1000)
    /\ [](\A f \in FeeChoices, u \in Users :
            /\ (f > 1000 /\ ~protocol_config.initialized)
                  => initialize_protocol_error(f) = "FeeTooHigh"
            /\ f > 1000 => update_fee_error(u, f) # "Ok"
            /\ (f > 1000 /\ protocol_config.initialized
                   /\ u = protocol_config.authority)
                  => update_fee_error(u, f) = "FeeTooHigh"
            /\ (protocol_config.initialized /\ u # protocol_config.authority)
                  => update_fee_error(u, f) = "Unauthorized"
            /\ update_fee_error(u, f) = "Ok" => u = protocol_config.authority)
    /\ [][/\ protocol_config'.fee_basis_points # protocol_config.fee_basis_points
             => \/ Step("setup") /\ last'.op = "initialize_protocol"
                \/ Step("fee")
          /\ Step("fee")
             => /\ last'.op = "update_fee"
                /\ last'.event.old_fee = protocol_config.fee_basis_points
                /\ last'.event.new_fee = protocol_config'.fee_basis_points
                /\ protocol_config' = [protocol_config EXCEPT
                       !.fee_basis_points = last'.event.new_fee]
         ]_vars

\* The authority has just raised the rate from 100 to the maximum, 1000; a
\* further raise to 1001 would be refused with FeeTooHigh, and any update by
\* another caller with Unauthorized.
C21_FeeAtMaximum ==
    /\ last.op = "update_fee"
    /\ last.event.old_fee = 100
    /\ protocol_config.fee_basis_points = 1000
    /\ update_fee_error(protocol_config.authority, 1001) = "FeeTooHigh"
    /\ \E u \in Users : update_fee_error(u, 100) = "Unauthorized"

\* C22: create_authorization returns Ok only to the authority of the pool
\* passed, spend only to the authorized_spender of the authorization and
\* only with the authorization's pool, revoke_authorization only to the
\* issuer of the authorization; another caller, on accounts that exist, gets
\* Unauthorized; and every successful create_authorization, spend and
\* revoke_authorization in a run is by that identity.
C22_CallerIsStoredIdentity ==
    /\ [](\A u \in Users, a \in AuthIds, r \in CreateRequests, st \in StakerArgs :
            LET e == create_authorization_error(u, a[1], a[2], a[3],
                         r.spending_cap, r.expires_at, r.purpose_len, st)
            IN /\ e = "Ok" => u = fog_pools[a[1]].authority
               /\ (/\ ~authorizations[a].initialized
                   /\ fog_pools[a[1]].initialized
                   /\ protocol_config.initialized
                   /\ (st = "Some" => stakers[a[2]].initialized)
                   /\ u # fog_pools[a[1]].authority)
                  => e = "Unauthorized")
    /\ [](\A u \in Users, a \in Existing, p \in Pools, amt \in SpendAmounts :
            /\ spend_error(u, a, p, amt) = "Ok"
                  => /\ u = authorizations[a].authorized_spender
                     /\ p = authorizations[a].fog_pool
            /\ (/\ fog_pools[p].initialized /\ protocol_config.initialized
                /\ u # authorizations[a].authorized_spender)
                  => spend_error(u, a, p, amt) = "Unauthorized")
    /\ [](\A u \in Users, a \in Existing, p \in Pools :
            /\ revoke_authorization_error(u, a, p) = "Ok"
                  => u = authorizations[a].issuer
            /\ (fog_pools[p].initialized /\ u # authorizations[a].issuer)
                  => revoke_authorization_error(u, a, p) = "Unauthorized")
    /\ [][/\ Step("create")
             => /\ last'.event.issuer = fog_pools[last'.event.fog_pool].authority
                /\ authorizations'[last'.event.authorization].issuer
                      = last'.event.issuer
          /\ Step("spend")
             => /\ last'.event.spender
                      = authorizations[last'.event.authorization].authorized_spender
                /\ last'.event.fog_pool
                      = authorizations[last'.event.authorization].fog_pool
          /\ Step("revoke")
             => last'.event.revoked_by
                   = authorizations[last'.event.authorization].issuer
         ]_vars

\* An authorization issued by alice to bob has been spent from by bob, and
\* the run may still spend and revoke: a spend by alice and a revoke by bob
\* are refused with Unauthorized, as is a further authorization on pool p1
\* issued by bob.
C22_OthersRefused ==
    /\ last.op = "spend"
    /\ last.event.spender = "bob"
    /\ last.event.amount > 0
    /\ budget.spend > 0
    /\ authorizations[last.event.authorization].issuer = "alice"
    /\ spend_error("alice", last.event.authorization, "p1", 199) = "Unauthorized"
    /\ revoke_authorization_error("bob", last.event.authorization, "p1")
          = "Unauthorized"
    /\ ~authorizations[<<"p1", "bob", 1>>].initialized
    /\ create_authorization_error("bob", "p1", "bob", 1, 1000000, 2, 64, "None")
          = "Unauthorized"

\* C23: an authorization that exists stays, with its fog_pool,
\* authorized_spender, issuer, spending_cap, created_at, expires_at and
\* purpose as created; its amount_spent changes only in a spend on it and
\* its is_active only in a revoke_authorization of it, and neither changes
\* the other field; a step changes at most one authorization, the one its
\* event names.
C23_AuthorizationFrame ==
    [][/\ \A a \in Existing :
            /\ authorizations'[a] = [authorizations[a] EXCEPT
                   !.amount_spent = authorizations'[a].amount_spent,
                   !.is_active = authorizations'[a].is_active]
            /\ authorizations'[a].amount_spent # authorizations[a].amount_spent
                  => /\ Step("spend") /\ last'.op = "spend"
                     /\ last'.event.authorization = a
                     /\ authorizations'[a].is_active = authorizations[a].is_active
            /\ authorizations'[a].is_active # authorizations[a].is_active
                  => /\ Step("revoke") /\ last'.op = "revoke_authorization"
                     /\ last'.event.authorization = a
                     /\ authorizations'[a].amount_spent
                           = authorizations[a].amount_spent
       /\ authorizations' # authorizations
             => /\ Step("create") \/ Step("spend") \/ Step("revoke")
                /\ \A b \in AuthIds \ {last'.event.authorization} :
                      authorizations'[b] = authorizations[b]
       /\ Step("create") => last'.event.authorization \notin Existing
      ]_vars

\* Of two authorizations, one has been spent from and has just been revoked;
\* the other is as it was created.
C23_OneTouched ==
    /\ last.op = "revoke_authorization"
    /\ \E a \in Existing, b \in Existing :
          /\ a # b
          /\ last.event.authorization = a
          /\ authorizations[a].amount_spent > 0
          /\ ~authorizations[a].is_active
          /\ authorizations[b].amount_spent = 0
          /\ authorizations[b].is_active

\* C24: a stake or unstake leaves every authorization as it was, its
\* spending_cap and remaining cap included, and leaves the result of every
\* spend by its spender as it was; and whatever the spender's tier has
\* become, a spend within the remaining cap of an active, unexpired
\* authorization that the pool vault can pay succeeds.
C24_TierCheckedAtCreationOnly ==
    /\ [][Step("stake") =>
            /\ authorizations' = authorizations
            /\ \A a \in Existing, amt \in SpendAmounts :
                  /\ (spend_remaining(authorizations[a]))'
                        = spend_remaining(authorizations[a])
                  /\ (spend_error(authorizations[a].authorized_spender, a,
                                  authorizations[a].fog_pool, amt))'
                        = spend_error(authorizations[a].authorized_spender, a,
                                      authorizations[a].fog_pool, amt)
         ]_vars
    /\ [](\A a \in Existing, amt \in SpendAmounts :
            (/\ authorizations[a].is_active
             /\ clock < authorizations[a].expires_at
             /\ amt <= authorizations[a].spending_cap
                          - authorizations[a].amount_spent
             /\ balances[VaultOf(authorizations[a].fog_pool)] >= amt)
            => spend_error(authorizations[a].authorized_spender, a,
                           authorizations[a].fog_pool, amt) = "Ok")

\* bob, a staker whose tier has dropped to 0, has just spent from an
\* authorization whose spending_cap, 500,000,001, is above what tier 0
\* allows; the whole rest of the cap is still his to spend.
C24_SpentAfterDowngrade ==
    /\ last.op = "spend"
    /\ last.event.spender = "bob"
    /\ last.event.amount = 100000
    /\ stakers["bob"].initialized
    /\ stakers["bob"].tier = 0
    /\ authorizations[last.event.authorization].spending_cap = 500000001
    /\ 500000001 > get_max_cap_for_tier(0, protocol_config)
    /\ last.event.remaining = 500000001 - 100000

\* The authorizations that reference pool p and are active.
ActiveOf(p) ==
    {a \in Existing : authorizations[a].fog_pool = p /\ authorizations[a].is_active}

\* C25: in every reachable state the active_authorizations of each pool is
\* the number of authorizations that reference the pool and have
\* is_active = TRUE.
C25_ActiveCount ==
    \A p \in Pools :
        fog_pools[p].active_authorizations = Cardinality(ActiveOf(p))

StakedTotal == stakers["alice"].staked_amount + stakers["bob"].staked_amount

\* C26: in every reachable state total_staked is the sum of staked_amount
\* over the staker records, and no staked_amount is negative; an unstake of
\* more than the staker's staked_amount fails with InsufficientStake; and a
\* successful unstake takes its amount, which is at most total_staked, from
\* the staker's staked_amount and from total_staked alike (the saturating
\* subtraction does not clamp).
C26_TotalStakedIsSum ==
    /\ [](/\ protocol_config.total_staked = StakedTotal
          /\ \A u \in Users : stakers[u].staked_amount >= 0)
    /\ [](\A u \in StakerRecords, amt \in StakeAmounts :
            /\ (protocol_config.initialized /\ amt > stakers[u].staked_amount)
                  => unstake_error(u, amt) = "InsufficientStake"
            /\ unstake_error(u, amt) = "Ok" => amt <= stakers[u].staked_amount)
    /\ [][(Step("stake") /\ last'.op = "unstake") =>
            LET u == last'.event.user
                amount == last'.event.amount
            IN /\ amount <= stakers[u].staked_amount
               /\ amount <= protocol_config.total_staked
               /\ stakers'[u].staked_amount = stakers[u].staked_amount - amount
               /\ protocol_config'.total_staked
                     = protocol_config.total_staked - amount
               /\ unstake_total_staked(amount)
                     = protocol_config.total_staked - amount
         ]_vars

\* Two stakers; one has just unstaked, which leaves 100 staked in all, by
\* the other, whose unstake of 1000 would be refused with InsufficientStake.
C26_TwoStakers ==
    /\ last.op = "unstake"
    /\ protocol_config.total_staked = 100
    /\ \E u \in StakerRecords :
          /\ u # last.event.user
          /\ stakers[u].staked_amount = 100
          /\ stakers[last.event.user].initialized
          /\ stakers[last.event.user].staked_amount = 0
          /\ unstake_error(u, 1000) = "InsufficientStake"

\* What authorization a has spent from pool p: its amount_spent when it
\* references p, nothing otherwise.
SpentFrom(a, p) ==
    IF authorizations[a].initialized /\ authorizations[a].fog_pool = p
    THEN authorizations[a].amount_spent
    ELSE 0

\* The sum of amount_spent over the authorizations that reference pool p.
SpentOf(p) == SpentFrom(<<"p1", "bob", 0>>, p) + SpentFrom(<<"p1", "bob", 1>>, p)

FeesGenerated == fog_pools["p1"].total_fees_generated + fog_pools["p2"].total_fees_generated

\* C27: in every reachable state the total_spent of each pool is the sum of
\* amount_spent over the authorizations that reference it, and
\* total_fees_collected is the sum of total_fees_generated over the pools;
\* a successful spend adds its amount to the total_spent, and its fee to the
\* total_fees_generated, of the pool its authorization references.
C27_PoolTotals ==
    /\ [](/\ \A p \in Pools : fog_pools[p].total_spent = SpentOf(p)
          /\ protocol_config.total_fees_collected = FeesGenerated)
    /\ [][Step("spend") =>
            LET p == authorizations[last'.event.authorization].fog_pool IN
            /\ fog_pools' = [fog_pools EXCEPT
                   ![p].total_spent = @ + last'.event.amount,
                   ![p].total_fees_generated = @ + last'.event.fee]
            /\ protocol_config' = [protocol_config EXCEPT
                   !.total_fees_collected = @ + last'.event.fee]
         ]_vars

\* Two authorizations on pool p1 have both been spent from, with a fee.
C27_TwoSpenders ==
    /\ last.op = "spend"
    /\ last.event.fee > 0
    /\ authorizations[<<"p1", "bob", 0>>].amount_spent > 0
    /\ authorizations[<<"p1", "bob", 1>>].amount_spent > 0
    /\ fog_pools["p1"].total_spent
          = authorizations[<<"p1", "bob", 0>>].amount_spent
            + authorizations[<<"p1", "bob", 1>>].amount_spent
    /\ protocol_config.total_fees_collected > last.event.fee

\* The fee vault holds the fees collected and not yet paid out.
FeeVaultBalanced ==
    balances[FeeVault] = protocol_config.total_fees_collected
                           - protocol_config.total_fees_distributed

\* A spend pays its net amount into the fee vault: a credit that is not a fee.
SpendIntoFeeVault == Step("spend") /\ last'.event.recipient = FeeVault

\* C28: the fee vault's balance is total_fees_collected -
\* total_fees_distributed at the start, and every step but a spend whose
\* recipient is the fee vault keeps it so: the fees of spends are the only
\* other credit and claim_rewards the only debit.  While it is so, a
\* claim_rewards of pending_rewards above that difference fails on the
\* transfer, and no step of it changes pending_rewards or
\* total_fees_distributed.
C28_FeeVaultHoldsUnclaimedFees ==
    /\ FeeVaultBalanced
    /\ [][(FeeVaultBalanced /\ ~SpendIntoFeeVault) => FeeVaultBalanced']_vars
    /\ [][balances'[FeeVault] < balances[FeeVault]
            => Step("claim") /\ last'.op = "claim_rewards"]_vars
    /\ [](\A u \in StakerRecords :
            (/\ FeeVaultBalanced
             /\ stakers[u].pending_rewards
                   > protocol_config.total_fees_collected
                       - protocol_config.total_fees_distributed)
            => claim_rewards_error(u) = "InsufficientFunds")
    /\ [][\A u \in StakerRecords :
            (/\ FeeVaultBalanced
             /\ stakers[u].pending_rewards
                   > protocol_config.total_fees_collected
                       - protocol_config.total_fees_distributed)
            => ~(Step("claim") /\ last'.event.user = u)
         ]_vars

\* Fees have been collected and one claim paid out; the fee vault holds
\* the difference, the run may still claim, and a staker's pending_rewards
\* exceed it: the claim is refused on the transfer.
C28_ClaimAboveUnclaimedFees ==
    /\ FeeVaultBalanced
    /\ last.op = "claim_rewards"
    /\ protocol_config.total_fees_distributed > 0
    /\ budget.claim > 0
    /\ \E u \in StakerRecords :
          /\ stakers[u].pending_rewards > balances[FeeVault]
          /\ claim_rewards_error(u) = "InsufficientFunds"

=============================================================================
